---- MODULE Spec2Model ----
(***************************************************************************)
(* Model of aws_parameter_update: update_parameters (src/src/lib.rs) runs  *)
(* Parameter::update (src/src/parameter.rs) over a vector of parameters,   *)
(* one after another, against the SSM parameter store.                     *)
(*                                                                         *)
(* The store is a map from names to values.  Every await point of the code *)
(* (get_parameter, put_parameter) is one action; the reply of the store is *)
(* the input of the action.                                                *)
(***************************************************************************)
EXTENDS Integers, Sequences, FiniteSets, TLC

\* ---------------------------------------------------------------- bounds
MaxLen == 2        \* longest vector of parameters handed to update_parameters
MaxFaults == 1     \* store calls that may fail in one behaviour

Names == {"n1", "n2"}
Values == {"v", "V"}            \* differ only in case
StoredAtStart == {"V", "v "}    \* "v " differs from "v" only in whitespace
Descriptions == {"d"}
NoValue == "<absent>"           \* the store holds nothing under the name

\* ------------------------------------------------------------ Parameter
\* struct Parameter { name, value, description, is_secure }
Parameter == [name : Names, value : Values, description : Descriptions, is_secure : BOOLEAN]

\* faulty variant: decrypt only what is stored encrypted
to_get_parameter_request_DecryptIfSecure(p) ==
    [name |-> p.name, with_decryption |-> p.is_secure]

\* Parameter::to_get_parameter_request
to_get_parameter_request(p) ==
    [name |-> p.name, with_decryption |-> TRUE]

\* faulty variant: the request never overwrites
to_put_parameter_request_NoOverwrite(p) ==
    [name |-> p.name, value |-> p.value, description |-> p.description,
     type_ |-> IF p.is_secure THEN "SecureString" ELSE "String",
     overwrite |-> FALSE]

\* faulty variant: the type does not follow is_secure
to_put_parameter_request_AlwaysString(p) ==
    [name |-> p.name, value |-> p.value, description |-> p.description,
     type_ |-> "String",
     overwrite |-> TRUE]

\* faulty variant: value and description swapped
to_put_parameter_request_ValueFromDescription(p) ==
    [name |-> p.name, value |-> p.description, description |-> p.value,
     type_ |-> IF p.is_secure THEN "SecureString" ELSE "String",
     overwrite |-> TRUE]

\* Parameter::to_put_parameter_request
to_put_parameter_request(p) ==
    [name |-> p.name, value |-> p.value, description |-> p.description,
     type_ |-> IF p.is_secure THEN "SecureString" ELSE "String",
     overwrite |-> TRUE]

\* reading the storage type of a request back as a secure flag
TypeIsSecure(type_) == type_ = "SecureString"

\* ------------------------------------------------- replies of the store
\* Result<GetParameterResult, RusotoError<GetParameterError>> of get_parameter:
\*   Value        Ok(result) with result.parameter.value = Some(value)
\*   Empty        Ok(result) with result.parameter or its value None
\*   NotFound     Err(Service(ParameterNotFound))
\*   Credentials  Err(Credentials(_))
\*   Transport    any other Err (HttpDispatch, Unknown, ...)
FetchFaults == {"Credentials", "Transport", "Empty"}
Reply(kind, value) == [kind |-> kind, value |-> value]

\* what the store answers to a get_parameter for name when the call works
StoreAnswer(s, name) ==
    IF s[name] = NoValue THEN Reply("NotFound", NoValue) ELSE Reply("Value", s[name])

\* what put_parameter does to the store when it succeeds
StoreAfterPut(s, req) ==
    IF req.overwrite \/ s[req.name] = NoValue
    THEN [s EXCEPT ![req.name] = req.value]
    ELSE s

Ok(v) == [ok |-> TRUE, value |-> v]
Err == [ok |-> FALSE, value |-> "NoneError"]

\* faulty variant: the comparison is the wrong way round
needs_updating_Inverted(p, reply) ==
    IF reply.kind = "Value" THEN Ok(p.value = reply.value) ELSE Err

\* faulty variant: an existing value always counts as stale
needs_updating_AlwaysStale(p, reply) ==
    IF reply.kind = "Value" THEN Ok(TRUE) ELSE Err

\* faulty variant: a failed fetch counts as "needs updating"
needs_updating_ErrorMeansUpdate(p, reply) ==
    IF reply.kind = "Value" THEN Ok(p.value # reply.value) ELSE Ok(TRUE)

\* Parameter::needs_updating, after the get_parameter call has answered
needs_updating(p, reply) ==
    IF reply.kind = "Value"
    THEN Ok(p.value # reply.value)            \* Ok(self.value != existing_value)
    ELSE IF reply.kind = "Empty"
         THEN Err                             \* parameter? / value? on None
         ELSE Err                             \* Err(error) => Err(NoneError)

\* Parameter::update, what it returns once needs_updating returned Ok(_);
\* putOk is the outcome of put_parameter (TRUE when no put was needed)
update_result(p, putOk) == Ok(p.name)

\* faulty variant: a failed entry fails the batch
update_parameters_return_Propagate(anyFailed) ==
    IF anyFailed THEN "Err" ELSE "Ok"

\* update_parameters, what it returns after the loop
update_parameters_return(anyFailed) == "Ok"

\* ---------------------------------------------------------------- state
VARIABLES
    parameters,   \* the Vec<Parameter> of update_parameters
    store,        \* the remote parameter store: name -> value or NoValue
    run,          \* "first" or "second" invocation over the same parameters
    pc,           \* "loop": at the head of the for loop; "put": awaiting put_parameter; "done"
    i,            \* index of the parameter the loop is at
    reply,        \* reply to the get_parameter of the parameter being processed
    gets,         \* get_parameter calls issued
    puts,         \* put_parameter calls issued
    outcomes,     \* results of parameter.update(), one per processed parameter
    result,       \* what update_parameters returned ("none" while running)
    faults,       \* failed store calls so far
    store0        \* the store when the current run started

vars == <<parameters, store, run, pc, i, reply, gets, puts, outcomes, result, faults, store0>>

SeqsUpTo(S, n) == UNION {[1..k -> S] : k \in 0..n}

Init ==
    /\ parameters \in SeqsUpTo(Parameter, MaxLen)
    /\ store \in [Names -> StoredAtStart \cup {NoValue}]
    /\ run = "first"
    /\ pc = "loop"
    /\ i = 1
    /\ reply = Reply("none", NoValue)
    /\ gets = <<>>
    /\ puts = <<>>
    /\ outcomes = <<>>
    /\ result = "none"
    /\ faults = 0
    /\ store0 = store

\* the record kept of one parameter.update(): its Result (ok, value), the
\* reply its get_parameter received (fetch, existing), what became of its
\* put_parameter (put) and the store before and after it
Outcome(res, r, put, after) ==
    [run |-> run, idx |-> i, ok |-> res.ok, value |-> res.value,
     fetch |-> r.kind, existing |-> r.value, put |-> put,
     before |-> store, after |-> after]

\* the replies a get_parameter for name can receive
GetReplies(name) ==
    {StoreAnswer(store, name)}
      \cup (IF faults < MaxFaults THEN {Reply(k, NoValue) : k \in FetchFaults} ELSE {})

\* for parameter in parameters: parameter.update(&client) up to the first
\* await that is not decided yet: get_parameter answers, needs_updating
\* decides, and update either returns or goes on to put_parameter
Get ==
    /\ pc = "loop"
    /\ i <= Len(parameters)
    /\ LET p == parameters[i]
           req == to_get_parameter_request(p) IN
       \E r \in GetReplies(req.name) :
         LET need == needs_updating(p, r) IN
           /\ gets' = Append(gets, [run |-> run, idx |-> i, req |-> req])
           /\ faults' = IF r.kind \in FetchFaults THEN faults + 1 ELSE faults
           /\ reply' = r
           /\ IF ~need.ok
              THEN \* needs_updating(..)? returns Err from update
                   /\ outcomes' = Append(outcomes, Outcome(Err, r, "none", store))
                   /\ i' = i + 1
                   /\ pc' = "loop"
              ELSE IF need.value
              THEN /\ pc' = "put"
                   /\ UNCHANGED <<outcomes, i>>
              ELSE /\ outcomes' = Append(outcomes, Outcome(update_result(p, TRUE), r, "none", store))
                   /\ i' = i + 1
                   /\ pc' = "loop"
    /\ UNCHANGED <<parameters, store, run, puts, result, store0>>

\* client.put_parameter(parameter_request).await and the rest of update
Put ==
    /\ pc = "put"
    /\ LET p == parameters[i]
           req == to_put_parameter_request(p) IN
       \E putOk \in (IF faults < MaxFaults THEN BOOLEAN ELSE {TRUE}) :
         LET after == IF putOk THEN StoreAfterPut(store, req) ELSE store IN
           /\ puts' = Append(puts, [run |-> run, idx |-> i, req |-> req, ok |-> putOk])
           /\ store' = after
           /\ faults' = IF putOk THEN faults ELSE faults + 1
           /\ outcomes' = Append(outcomes,
                  Outcome(update_result(p, putOk), reply,
                          IF putOk THEN "ok" ELSE "failed", after))
    /\ i' = i + 1
    /\ pc' = "loop"
    /\ UNCHANGED <<parameters, run, reply, gets, result, store0>>

\* the loop is over: update_parameters returns
Return ==
    /\ pc = "loop"
    /\ i > Len(parameters)
    /\ result' = update_parameters_return(
                    \E k \in 1..Len(outcomes) : outcomes[k].run = run /\ ~outcomes[k].ok)
    /\ pc' = "done"
    /\ UNCHANGED <<parameters, store, run, i, reply, gets, puts, outcomes, faults, store0>>

\* the tool is invoked a second time with the same input (main), after a
\* first invocation in which no store call failed
Rerun ==
    /\ pc = "done"
    /\ run = "first"
    /\ faults = 0
    /\ run' = "second"
    /\ pc' = "loop"
    /\ i' = 1
    /\ reply' = Reply("none", NoValue)
    /\ result' = "none"
    /\ store0' = store
    /\ UNCHANGED <<parameters, store, gets, puts, outcomes, faults>>

Next == Get \/ Put \/ Return \/ Rerun

Spec == Init /\ [][Next]_vars

\* ------------------------------------------------------------ properties
Outcomes == {outcomes[k] : k \in 1..Len(outcomes)}
Gets == {gets[k] : k \in 1..Len(gets)}
Puts == {puts[k] : k \in 1..Len(puts)}

\* the put_parameter calls issued for parameter idx of run r
PutsFor(r, idx) == {k \in 1..Len(puts) : puts[k].run = r /\ puts[k].idx = idx}
PutsOfRun(r) == {k \in 1..Len(puts) : puts[k].run = r}
OutcomesOfRun(r) == SelectSeq(outcomes, LAMBDA o : o.run = r)
GetsOfRun(r) == SelectSeq(gets, LAMBDA g : g.run = r)

\* every get_parameter of run r returned a value and every put_parameter worked
NoCallFailed(r) ==
    \A o \in Outcomes : o.run = r => o.fetch = "Value" /\ o.put # "failed"

\* the value of the last parameter named name
LastValue(name) ==
    LET ks == {k \in 1..Len(parameters) : parameters[k].name = name}
        last == CHOOSE k \in ks : \A j \in ks : j <= k
    IN parameters[last].value

InputNames == {parameters[k].name : k \in 1..Len(parameters)}

\* no name is given two different values by the input
NoConflictingDuplicates ==
    \A j, k \in 1..Len(parameters) :
        parameters[j].name = parameters[k].name => parameters[j].value = parameters[k].value

\* C1: a parameter whose fetch reports "not found" gets exactly one
\* put_parameter call and a success result carrying its name.
C1_NotFoundIsUpserted ==
    \A o \in Outcomes :
        o.fetch = "NotFound" =>
            /\ o.ok
            /\ o.value = parameters[o.idx].name
            /\ Cardinality(PutsFor(o.run, o.idx)) = 1

\* C2: a parameter whose fetch returns a value equal to its own gets no
\* put_parameter call, leaves the store as it was, and gets a success result
\* carrying its name.
C2_EqualValueNoWrite ==
    \A o \in Outcomes :
        (o.fetch = "Value" /\ o.existing = parameters[o.idx].value) =>
            /\ PutsFor(o.run, o.idx) = {}
            /\ o.put = "none"
            /\ o.after = o.before
            /\ o.ok
            /\ o.value = parameters[o.idx].name

C2_Witness ==
    \E o \in Outcomes :
        /\ o.fetch = "Value"
        /\ o.existing = parameters[o.idx].value
        /\ o.ok

\* C3: a parameter whose fetch returns a value different from its own (under
\* exact string comparison) gets exactly one put_parameter call, carrying its
\* name, value and description with overwrite = true; no put_parameter
\* request has overwrite other than true.
C3_DifferentValueOneOverwritingPut ==
    /\ \A o \in Outcomes :
          (o.fetch = "Value" /\ o.existing # parameters[o.idx].value) =>
              /\ Cardinality(PutsFor(o.run, o.idx)) = 1
              /\ \A k \in PutsFor(o.run, o.idx) :
                    /\ puts[k].req.name = parameters[o.idx].name
                    /\ puts[k].req.value = parameters[o.idx].value
                    /\ puts[k].req.description = parameters[o.idx].description
                    /\ puts[k].req.overwrite = TRUE
    /\ \A q \in Puts : q.req.overwrite = TRUE
    /\ \A k \in 1..Len(parameters) : to_put_parameter_request(parameters[k]).overwrite = TRUE

\* both a case-only and a whitespace-only difference led to a put
C3_Witness ==
    /\ \E o \in Outcomes :
          o.existing = "V" /\ parameters[o.idx].value = "v" /\ PutsFor(o.run, o.idx) # {}
    /\ \E o \in Outcomes :
          o.existing = "v " /\ parameters[o.idx].value = "v" /\ PutsFor(o.run, o.idx) # {}

\* a result follows the rule of update for the reply its fetch received
ProcessedNormally(o) ==
    /\ \E g \in Gets : g.run = o.run /\ g.idx = o.idx
    /\ (o.fetch = "Value" /\ o.existing = parameters[o.idx].value) =>
           o.ok /\ PutsFor(o.run, o.idx) = {}
    /\ (o.fetch = "Value" /\ o.existing # parameters[o.idx].value) =>
           Cardinality(PutsFor(o.run, o.idx)) = 1

\* C4: when the fetch of a parameter fails for a reason other than "not
\* found", its result is a failure and no put_parameter is attempted for it;
\* the parameters after it are still fetched and processed as usual, and the
\* loop reaches the end of the vector.
C4_FetchFailureIsolated ==
    /\ \A o \in Outcomes :
          o.fetch \in {"Credentials", "Transport"} =>
              /\ ~o.ok
              /\ o.put = "none"
              /\ PutsFor(o.run, o.idx) = {}
              /\ o.after = o.before
              /\ \A o2 \in Outcomes :
                    (o2.run = o.run /\ o2.idx > o.idx) => ProcessedNormally(o2)
    /\ pc = "done" => \A k \in 1..Len(parameters) :
                          \E o \in Outcomes : o.run = run /\ o.idx = k

C4_Witness ==
    \E o, o2 \in Outcomes :
        /\ o.fetch \in {"Credentials", "Transport"}
        /\ o2.run = o.run
        /\ o2.idx > o.idx
        /\ o2.put = "ok"

\* C5: when the put_parameter call of a parameter fails, the result of its
\* update is a failure.
C5_PutFailureIsFailure ==
    \A o \in Outcomes : o.put = "failed" => ~o.ok

\* C6: update_parameters returns Ok(()) for every vector and every
\* combination of store failures, after every parameter got its result; an
\* empty vector causes no store call.
C6_BatchAlwaysOk ==
    /\ result \in {"none", "Ok"}
    /\ pc = "done" =>
          /\ result = "Ok"
          /\ Len(OutcomesOfRun(run)) = Len(parameters)
    /\ Len(parameters) = 0 => gets = <<>> /\ puts = <<>>

C6_Witness ==
    /\ pc = "done"
    /\ result = "Ok"
    /\ \E o \in Outcomes : o.run = run /\ ~o.ok
    /\ \E o \in Outcomes : o.run = run /\ o.put = "ok"

C8_TypeFollowsSecure ==
    /\ \A q \in Puts :
          /\ q.req.type_ = (IF parameters[q.idx].is_secure THEN "SecureString" ELSE "String")
          /\ TypeIsSecure(q.req.type_) = parameters[q.idx].is_secure
    /\ \A k \in 1..Len(parameters) :
          TypeIsSecure(to_put_parameter_request(parameters[k]).type_) = parameters[k].is_secure

C8_Witness ==
    \E q1, q2 \in Puts :
        /\ parameters[q1.idx].is_secure
        /\ ~parameters[q2.idx].is_secure

\* C9: every get_parameter request asks for decryption and names the
\* parameter it is issued for, whatever the parameter's is_secure.
C9_FetchAlwaysDecrypts ==
    \A g \in Gets :
        /\ g.req.with_decryption = TRUE
        /\ g.req.name = parameters[g.idx].name

C9_Witness ==
    \E g1, g2 \in Gets :
        /\ parameters[g1.idx].is_secure
        /\ ~parameters[g2.idx].is_secure

\* C10 as stated: after a first run in which every store call succeeded, a
\* second run over the same parameters issues no put_parameter call and leaves
\* the store unchanged.
C10_SecondRunWritesNothing ==
    (run = "second" /\ NoCallFailed("first")) =>
        /\ PutsOfRun("second") = {}
        /\ store = store0

\* C10 amended: the same, for a vector that gives no name two different values.
C10_SecondRunWritesNothingNoConflict ==
    (run = "second" /\ NoCallFailed("first") /\ NoConflictingDuplicates) =>
        /\ PutsOfRun("second") = {}
        /\ store = store0

\* the second run is over, the first one wrote, and a name occurs twice
C10_Witness ==
    /\ run = "second"
    /\ pc = "done"
    /\ NoCallFailed("first")
    /\ NoCallFailed("second")
    /\ NoConflictingDuplicates
    /\ PutsOfRun("first") # {}
    /\ Len(parameters) >= 2
    /\ parameters[1].name = parameters[2].name

====
